---- MODULE Spec2Model ----
(***************************************************************************)
(* QWAMOS secure boot: the signature-verification pipeline of             *)
(* src/bootloader/kyber1024_verify.c, as a state machine.                  *)
(*                                                                         *)
(* The boot sequencer calls one public operation at a time                 *)
(* (kyber1024_verify_image, kyber1024_verify_kernel,                       *)
(* kyber1024_verify_initramfs, secure_boot_verify_chain); the call runs    *)
(* step by step to its return.  pc is the position inside the call, trace  *)
(* the reads, library calls and console messages of the call so far.       *)
(*                                                                         *)
(* Bytes are drawn from Byte and payloads are short; the sizes of the      *)
(* trailer fields and of the key are the program's own.  SHA-256 is an     *)
(* injective encoding of the payload (no collisions inside the bounds).    *)
(* A signature value names the digest it signs and the key pair that made  *)
(* it; Verify is the primitive's answer when it is handed exactly the      *)
(* signature field and the key.                                            *)
(***************************************************************************)
EXTENDS Integers, Sequences, FiniteSets, TLC

\* ------------------------------------------------------------ bounds
MaxLen == 2

\* ------------------------------------------------- program constants
KYBER1024_PUBLIC_KEY_BYTES == 1568
KYBER1024_SIGNATURE_BYTES == 3309
QWAMOS_SIG_MAGIC == 1296127825
QWAMOS_SIG_VERSION == 1
\* sizes of the remaining fields of struct qwamos_signature
HASH_BYTES == 32
RESERVED_BYTES == 64
\* sizeof(struct qwamos_signature), packed
SizeofSignature == 4 + 4 + 4 + HASH_BYTES + KYBER1024_SIGNATURE_BYTES + RESERVED_BYTES

\* The scheme kyber1024_verify_signature initialises is
\* OQS_SIG_alg_dilithium_5; these are that scheme's lengths in liboqs
\* (sig->length_signature, sig->length_public_key).
DILITHIUM5_LENGTH_SIGNATURE == 4595
DILITHIUM5_LENGTH_PUBLIC_KEY == 2592

OQS_SUCCESS == 0
OQS_ERROR == -1

\* ------------------------------------------------------ value domains
Byte == {0, 1}
NoValue == "none"

RECURSIVE SeqsUpTo(_)
SeqsUpTo(n) ==
    IF n = 0 THEN {<< >>}
    ELSE LET shorter == SeqsUpTo(n - 1)
         IN  shorter \cup {Append(s, b) : s \in {t \in shorter : Len(t) = n - 1}, b \in Byte}

\* the payloads an image loader may place in memory
Payloads == SeqsUpTo(MaxLen)

\* OQS_SHA2_sha256: an injective encoding of the bytes hashed
RECURSIVE OQS_SHA2_sha256(_)
OQS_SHA2_sha256(data) ==
    IF data = << >> THEN 0
    ELSE OQS_SHA2_sha256(SubSeq(data, 1, Len(data) - 1)) * 3 + data[Len(data)] + 1

\* sha256_hash(data, data_size, hash_out): the digest of data[0, data_size)
sha256_hash(data, data_size) == OQS_SHA2_sha256(SubSeq(data, 1, data_size))

\* key pairs: the device's own and a foreign one
Signers == {"qwamos", "other"}

\* the embedded key as compiled: every byte 0x00
EmbeddedKeyBytes == [i \in 1..KYBER1024_PUBLIC_KEY_BYTES |-> 0]
\* a caller-supplied key array that is not the embedded one
ForeignKeyBytes == [i \in 1..KYBER1024_PUBLIC_KEY_BYTES |-> IF i = 1 THEN 1 ELSE 0]

PublicKeyOf(signer) == IF signer = "qwamos" THEN EmbeddedKeyBytes ELSE ForeignKeyBytes

\* a signature made offline over digest by signer, and the zeroed field
Sign(digest, signer) == [msg |-> digest, signer |-> signer]
ZeroSignature == [msg |-> -1, signer |-> NoValue]

\* the primitive's answer on exactly (digest, signature field, key bytes)
Verify(digest, sigbytes, keybytes) ==
    /\ sigbytes # ZeroSignature
    /\ sigbytes.msg = digest
    /\ PublicKeyOf(sigbytes.signer) = keybytes

\* pointers a caller may pass as public_key
KeyPointers == {"qwamos_public_key", "caller_key"}

VARIABLES
    qwamos_public_key,  \* the embedded key array
    op,                 \* the public operation in progress
    pc,                 \* position inside it
    image,              \* payload bytes [0, image_size)
    image_size,         \* the image_size argument
    signature,          \* the struct qwamos_signature at the signature pointer
    trailing,           \* bytes the loader placed after the payload
    public_key,         \* the public_key pointer argument
    computed_hash,      \* verify_image's local digest
    sig_len_passed,     \* the signature_len of each OQS_SIG_verify call made
    ret,                \* return values: signature, image, wrapper, chain
    chain_key,          \* secure_boot_verify_chain's local key buffer
    trace,              \* reads, calls and messages of the call, in order
    load_buffer,        \* the key_buffer a caller hands to kyber1024_load_public_key
    load_size,          \* the key_size it hands over with it
    first_outcome,      \* what an earlier call on the same arguments returned
    \* ---- src/hypervisor/drivers/usb_killswitch.c
    module,             \* where the module is: unloaded, in init, loaded, in exit
    init_ret,           \* what usb_killswitch_init returned
    ks_state,           \* struct killswitch_state ks_state
    ks_kobj,            \* the kobject pointer ks_kobj
    ks_group,           \* whether the attribute group is registered in sysfs
    gpio_requested,     \* the GPIO lines this driver holds
    gpio_output,        \* the held lines configured as outputs
    gpio_value,         \* the level of each line
    gpio_calls,         \* gpio_request and gpio_free calls per line since the load
    gpio_late,          \* lines written while not held, or after exit drove them LOW
    stores,             \* the store callbacks in progress, one per writing thread
    sysfs_io            \* the last completed read or write of an attribute

\* the state of the kill-switch driver
ksvars == <<module, init_ret, ks_state, ks_kobj, ks_group, gpio_requested,
            gpio_output, gpio_value, gpio_calls, gpio_late, stores, sysfs_io>>

\* the state of the bootloader's verification code
bootvars == <<qwamos_public_key, op, pc, image, image_size, signature, trailing,
              public_key, computed_hash, sig_len_passed, ret, chain_key, trace,
              load_buffer, load_size, first_outcome>>

vars == <<bootvars, ksvars>>

\* what the pointer public_key points at
KeyBytes(ptr) == IF ptr = "qwamos_public_key" THEN qwamos_public_key ELSE ForeignKeyBytes

\* no function of the call has returned yet
NoRet == << >>
\* function fn has returned value
Returns(fn, value) == (fn :> value) @@ ret
Returned(fn) == fn \in DOMAIN ret

\* --------------------------------------------------- images in memory
MagicVals == {QWAMOS_SIG_MAGIC, 0}
VersionVals == {QWAMOS_SIG_VERSION, 2}
ReservedVals == {0, 1}

\* digests a trailer made for a payload of the same length may record
TrailerHashes(payload) ==
    {OQS_SHA2_sha256(p) : p \in {q \in Payloads : Len(q) = Len(payload)}}

\* every struct qwamos_signature that may follow the payload in memory
Trailers(payload) ==
    {[magic |-> m, version |-> v, image_size |-> n, image_hash |-> h,
      kyber_signature |-> IF s = NoValue THEN ZeroSignature ELSE Sign(h, s),
      reserved |-> r] :
        m \in MagicVals, v \in VersionVals, n \in 0..MaxLen,
        h \in TrailerHashes(payload),
        s \in Signers \cup {NoValue},
        r \in ReservedVals}

\* bytes an image loader may have placed after the payload
TrailingVals == {0, SizeofSignature - 1, SizeofSignature}

\* offset of the first byte after a field of the packed struct
FieldEnd(f) ==
    CASE f = "magic" -> 4
      [] f = "version" -> 8
      [] f = "image_size" -> 12
      [] f = "image_hash" -> 12 + HASH_BYTES
      [] f = "kyber_signature" -> 12 + HASH_BYTES + KYBER1024_SIGNATURE_BYTES
      [] OTHER -> SizeofSignature

\* the field lies inside the bytes loaded after the payload
FieldInBuffer(f) == FieldEnd(f) <= trailing

Read(f) == <<"read", f>>
Call(fn) == <<"call", fn>>
Printf(msg) == <<"printf", msg>>

\* ------------------------------------------- kyber1024_verify_image
\* variant: one message for every failure
ErrorMessageGeneric(check) == "ERROR: verification failed"
\* the message printed when a check fails
ErrorMessage(check) ==
    CASE check = "magic" -> "ERROR: Invalid signature magic"
      [] check = "version" -> "ERROR: Unsupported signature version"
      [] check = "image_size" -> "ERROR: Image size mismatch"
      [] check = "image_hash" -> "ERROR: Image hash mismatch!"
      [] OTHER -> "ERROR: Kyber-1024 signature verification failed!"

\* the value returned when a check fails
FailureCode(check) == -1

MagicValid(sig) == sig.magic = QWAMOS_SIG_MAGIC

\* variant: the version test left out
VersionValidUnchecked(sig) == TRUE
VersionValid(sig) == sig.version = QWAMOS_SIG_VERSION

\* variant: the size test left out
SizeValidUnchecked(sig, size) == TRUE
SizeValid(sig, size) == sig.image_size = size

\* variant: a memcmp over zero bytes
HashMatchesUnchecked(hash, sig) == TRUE
HashMatches(hash, sig) == hash = sig.image_hash

\* entry of kyber1024_verify_image, shared by every caller
EnterVerifyImage(payload, sig, keyptr, loaded, events) ==
    /\ image' = payload
    /\ image_size' = Len(payload)
    /\ signature' = sig
    /\ trailing' = loaded
    /\ public_key' = keyptr
    /\ computed_hash' = NoValue
    /\ sig_len_passed' = << >>
    /\ ret' = NoRet
    /\ trace' = events \o <<Call("kyber1024_verify_image")>>
    /\ pc' = "magic"
    /\ UNCHANGED <<qwamos_public_key, chain_key, load_buffer, load_size, ksvars>>

\* a check of the trailer fails: message, return -1
FailCheck(check, events) ==
    /\ trace' = trace \o events \o <<Printf(ErrorMessage(check))>>
    /\ ret' = Returns("image", FailureCode(check))
    /\ pc' = "image_ret"

PassCheck(next, events) ==
    /\ trace' = trace \o events
    /\ ret' = ret
    /\ pc' = next

Frame ==
    UNCHANGED <<qwamos_public_key, op, image, image_size, signature, trailing,
                public_key, chain_key, load_buffer, load_size, first_outcome, ksvars>>

CheckMagic ==
    /\ pc = "magic"
    /\ IF MagicValid(signature)
       THEN PassCheck("version", <<Read("magic")>>)
       ELSE FailCheck("magic", <<Read("magic")>>)
    /\ UNCHANGED <<computed_hash, sig_len_passed>>
    /\ Frame

CheckVersion ==
    /\ pc = "version"
    /\ IF VersionValid(signature)
       THEN PassCheck("image_size", <<Read("version")>>)
       ELSE FailCheck("version", <<Read("version")>>)
    /\ UNCHANGED <<computed_hash, sig_len_passed>>
    /\ Frame

CheckSize ==
    /\ pc = "image_size"
    /\ IF SizeValid(signature, image_size)
       THEN PassCheck("sha256", <<Read("image_size")>>)
       ELSE FailCheck("image_size", <<Read("image_size")>>)
    /\ UNCHANGED <<computed_hash, sig_len_passed>>
    /\ Frame

ComputeHash ==
    /\ pc = "sha256"
    /\ computed_hash' = sha256_hash(image, image_size)
    /\ PassCheck("image_hash", <<Call("sha256_hash")>>)
    /\ UNCHANGED sig_len_passed
    /\ Frame

CheckHash ==
    /\ pc = "image_hash"
    /\ IF HashMatches(computed_hash, signature)
       THEN PassCheck("sig_new", <<Read("image_hash")>>)
       ELSE FailCheck("image_hash", <<Read("image_hash")>>)
    /\ UNCHANGED <<computed_hash, sig_len_passed>>
    /\ Frame

\* --------------------------------------- kyber1024_verify_signature
\* OQS_SIG_new(OQS_SIG_alg_dilithium_5): NULL when the scheme is not built
\* in or memory is short
OQS_SIG_new == {"sig", "NULL"}

\* the signature_len argument of the OQS_SIG_verify call
SignatureLenArg == DILITHIUM5_LENGTH_SIGNATURE

\* the results OQS_SIG_verify can give: it reads signature_len bytes at the
\* signature pointer and length_public_key bytes at the key pointer.  Handed
\* exactly the signature field and the key array, it answers Verify; with
\* other lengths the bytes it reads are not those two objects (past the end
\* of either, whatever memory holds), and either answer is possible.
OQS_SIG_verify(message, sigbytes, signature_len, keybytes, length_public_key) ==
    IF /\ signature_len = KYBER1024_SIGNATURE_BYTES
       /\ length_public_key = Len(keybytes)
    THEN {IF Verify(message, sigbytes, keybytes) THEN OQS_SUCCESS ELSE OQS_ERROR}
    ELSE {OQS_SUCCESS, OQS_ERROR}

\* the call reads past the end of the signature record or of the key array
VerifyReadsOutOfBounds ==
    \/ FieldEnd("image_hash") + SignatureLenArg > trailing
    \/ DILITHIUM5_LENGTH_PUBLIC_KEY > Len(KeyBytes(public_key))

SigNew ==
    /\ pc = "sig_new"
    /\ \E sig \in OQS_SIG_new :
         IF sig = "NULL"
         THEN /\ trace' = trace \o
                    <<Printf("Verifying Kyber-1024 signature..."),
                      Call("kyber1024_verify_signature"), Call("OQS_SIG_new"),
                      Printf("ERROR: Failed to initialize Kyber signature scheme")>>
              /\ ret' = Returns("signature", -1)
              /\ pc' = "sig_chk"
         ELSE /\ trace' = trace \o
                    <<Printf("Verifying Kyber-1024 signature..."),
                      Call("kyber1024_verify_signature"), Call("OQS_SIG_new")>>
              /\ ret' = ret
              /\ pc' = "sig_verify"
    /\ UNCHANGED <<computed_hash, sig_len_passed>>
    /\ Frame

SigVerify ==
    /\ pc = "sig_verify"
    /\ sig_len_passed' = Append(sig_len_passed, SignatureLenArg)
    /\ \E r \in OQS_SIG_verify(computed_hash, signature.kyber_signature,
                               SignatureLenArg, KeyBytes(public_key),
                               DILITHIUM5_LENGTH_PUBLIC_KEY) :
         IF r = OQS_SUCCESS
         THEN /\ trace' = trace \o
                    <<Call("OQS_SIG_verify"), Call("OQS_SIG_free")>>
              /\ ret' = Returns("signature", 0)
         ELSE /\ trace' = trace \o
                    <<Call("OQS_SIG_verify"),
                      Printf("ERROR: Signature verification failed!"),
                      Call("OQS_SIG_free")>>
              /\ ret' = Returns("signature", -1)
    /\ pc' = "sig_chk"
    /\ UNCHANGED computed_hash
    /\ Frame

\* back in kyber1024_verify_image: the result of kyber1024_verify_signature
SigCheck ==
    /\ pc = "sig_chk"
    /\ IF ret["signature"] # 0
       THEN FailCheck("signature", << >>)
       ELSE /\ trace' = trace \o
                  <<Printf("SUCCESS: Image signature verified (Kyber-1024)")>>
            /\ ret' = Returns("image", 0)
            /\ pc' = "image_ret"
    /\ UNCHANGED <<computed_hash, sig_len_passed>>
    /\ Frame

\* a read outside the loaded bytes or the key array may also stop the machine
ReadsOutOfBounds ==
    \/ pc = "magic" /\ ~FieldInBuffer("magic")
    \/ pc = "version" /\ ~FieldInBuffer("version")
    \/ pc = "image_size" /\ ~FieldInBuffer("image_size")
    \/ pc = "image_hash" /\ ~FieldInBuffer("image_hash")
    \/ pc = "sig_verify" /\ VerifyReadsOutOfBounds

Fault ==
    /\ ReadsOutOfBounds
    /\ pc' = "fault"
    /\ UNCHANGED <<qwamos_public_key, op, image, image_size, signature, trailing,
                   public_key, computed_hash, sig_len_passed, ret, chain_key, trace,
                   load_buffer, load_size, first_outcome, ksvars>>

\* ------------------------------------------------------- the callers
\* variant: the result of the verification dropped
WrapperResultIgnoringFailure(image_ret) == 0
\* what a wrapper returns on the result of kyber1024_verify_image
WrapperResult(image_ret) == IF image_ret # 0 THEN -1 ELSE 0

WrapperReturn(failed, verified) ==
    /\ ret' = Returns("wrapper", WrapperResult(ret["image"]))
    /\ trace' = trace \o
          (IF WrapperResult(ret["image"]) # 0
           THEN <<Printf(failed), Printf("Boot process halted for security.")>>
           ELSE <<Printf(verified)>>)
    /\ pc' = "done"
    /\ UNCHANGED <<computed_hash, sig_len_passed>>
    /\ Frame

kyber1024_verify_image ==
    /\ pc = "idle"
    /\ op' = "image"
    /\ \E payload \in Payloads : \E sig \in Trailers(payload) : \E keyptr \in KeyPointers :
         EnterVerifyImage(payload, sig, keyptr, SizeofSignature, << >>)
    /\ UNCHANGED first_outcome

\* OQS_SIG_new gave no scheme object during this call (an allocation failed)
SchemeFailed ==
    \E i \in DOMAIN trace :
        trace[i] = Printf("ERROR: Failed to initialize Kyber signature scheme")

\* sha256_hash has run during this call
Hashed == \E i \in DOMAIN trace : trace[i] = Call("sha256_hash")

\* the same call once more: same image, size, trailer and key, all unmodified
VerifyImageAgain ==
    /\ pc = "done"
    /\ op = "image"
    /\ first_outcome = << >>
    /\ first_outcome' = <<[ret |-> ret["image"],
                           scheme_failed |-> SchemeFailed,
                           reserved |-> signature.reserved,
                           hashed |-> Hashed,
                           digest |-> computed_hash]>>
    /\ EnterVerifyImage(image, signature, public_key, trailing, << >>)
    /\ UNCHANGED op

\* the same call on a trailer that differs in its reserved bytes only
VerifyImageOtherReserved ==
    /\ pc = "done"
    /\ op = "image"
    /\ first_outcome = << >>
    /\ first_outcome' = <<[ret |-> ret["image"],
                           scheme_failed |-> SchemeFailed,
                           reserved |-> signature.reserved,
                           hashed |-> Hashed,
                           digest |-> computed_hash]>>
    /\ \E r \in ReservedVals \ {signature.reserved} :
         EnterVerifyImage(image, [signature EXCEPT !.reserved = r], public_key,
                          trailing, << >>)
    /\ UNCHANGED op

VerifyImageReturn ==
    /\ pc = "image_ret"
    /\ op = "image"
    /\ pc' = "done"
    /\ UNCHANGED <<computed_hash, sig_len_passed, ret, trace>>
    /\ Frame

kyber1024_verify_kernel ==
    /\ pc = "idle"
    /\ op' = "kernel"
    /\ \E payload \in Payloads : \E sig \in Trailers(payload) : \E loaded \in TrailingVals :
         EnterVerifyImage(payload, sig, "qwamos_public_key", loaded,
             <<Printf("=== QWAMOS Secure Boot: Kernel Verification ===")>>)
    /\ UNCHANGED first_outcome

KernelReturn ==
    /\ pc = "image_ret"
    /\ op = "kernel"
    /\ WrapperReturn("CRITICAL: Kernel signature verification FAILED!",
                     "Kernel signature verified successfully.")

kyber1024_verify_initramfs ==
    /\ pc = "idle"
    /\ op' = "initramfs"
    /\ \E payload \in Payloads : \E sig \in Trailers(payload) : \E loaded \in TrailingVals :
         EnterVerifyImage(payload, sig, "qwamos_public_key", loaded,
             <<Printf("=== QWAMOS Secure Boot: Initramfs Verification ===")>>)
    /\ UNCHANGED first_outcome

InitramfsReturn ==
    /\ pc = "image_ret"
    /\ op = "initramfs"
    /\ WrapperReturn("CRITICAL: Initramfs signature verification FAILED!",
                     "Initramfs signature verified successfully.")

\* variant: the copy takes its length from the caller's key_size
kyber1024_load_public_key_copies_key_size(key_buffer, key_size) ==
    IF key_size < KYBER1024_PUBLIC_KEY_BYTES
    THEN [ret |-> -1, key_buffer |-> key_buffer, embedded |-> qwamos_public_key,
          events |-> <<Printf("ERROR: Key buffer too small")>>]
    ELSE [ret |-> 0,
          key_buffer |-> [i \in DOMAIN key_buffer |->
                            IF i <= KYBER1024_PUBLIC_KEY_BYTES
                            THEN qwamos_public_key[i] ELSE 0],
          embedded |-> qwamos_public_key,
          events |-> << >>]

\* variant: the arguments of memcpy exchanged
kyber1024_load_public_key_copies_backwards(key_buffer, key_size) ==
    IF key_size < KYBER1024_PUBLIC_KEY_BYTES
    THEN [ret |-> -1, key_buffer |-> key_buffer, embedded |-> qwamos_public_key,
          events |-> <<Printf("ERROR: Key buffer too small")>>]
    ELSE [ret |-> 0,
          key_buffer |-> key_buffer,
          embedded |-> [i \in DOMAIN qwamos_public_key |-> key_buffer[i]],
          events |-> << >>]

\* variant: the short buffer refused without a message
kyber1024_load_public_key_silent(key_buffer, key_size) ==
    IF key_size < KYBER1024_PUBLIC_KEY_BYTES
    THEN [ret |-> -1, key_buffer |-> key_buffer, embedded |-> qwamos_public_key,
          events |-> << >>]
    ELSE [ret |-> 0,
          key_buffer |-> [i \in DOMAIN key_buffer |->
                            IF i <= KYBER1024_PUBLIC_KEY_BYTES
                            THEN qwamos_public_key[i] ELSE key_buffer[i]],
          embedded |-> qwamos_public_key,
          events |-> << >>]

\* kyber1024_load_public_key(key_buffer, key_size): the memory after the call
\* (the caller's buffer and the embedded array), the value and the messages
kyber1024_load_public_key(key_buffer, key_size) ==
    IF key_size < KYBER1024_PUBLIC_KEY_BYTES
    THEN [ret |-> -1, key_buffer |-> key_buffer, embedded |-> qwamos_public_key,
          events |-> <<Printf("ERROR: Key buffer too small")>>]
    ELSE [ret |-> 0,
          key_buffer |-> [i \in DOMAIN key_buffer |->
                            IF i <= KYBER1024_PUBLIC_KEY_BYTES
                            THEN qwamos_public_key[i] ELSE key_buffer[i]],
          embedded |-> qwamos_public_key,
          events |-> << >>]

\* the sizes a caller may announce, around the size of the key
KeySizes ==
    {0, KYBER1024_PUBLIC_KEY_BYTES - 1, KYBER1024_PUBLIC_KEY_BYTES,
     KYBER1024_PUBLIC_KEY_BYTES + 1}

\* what the caller's buffer holds before the call: never the key's bytes
CallerFill == {1, 255}

\* a caller is about to call kyber1024_load_public_key on its own buffer
CallLoadPublicKey ==
    /\ pc = "idle"
    /\ op' = "load"
    /\ pc' = "load"
    /\ \E size \in KeySizes : \E fill \in CallerFill :
         /\ load_size' = size
         /\ load_buffer' = [i \in 1..size |-> fill]
    /\ UNCHANGED <<qwamos_public_key, image, image_size, signature, trailing,
                   public_key, computed_hash, sig_len_passed, ret, chain_key, trace,
                   first_outcome, ksvars>>

\* the call itself
LoadPublicKey ==
    /\ pc = "load"
    /\ LET r == kyber1024_load_public_key(load_buffer, load_size)
       IN  /\ load_buffer' = r.key_buffer
           /\ qwamos_public_key' = r.embedded
           /\ trace' = trace \o <<Call("kyber1024_load_public_key")>> \o r.events
           /\ ret' = Returns("load", r.ret)
    /\ pc' = "done"
    /\ UNCHANGED <<op, image, image_size, signature, trailing, public_key,
                   computed_hash, sig_len_passed, chain_key, load_size,
                   first_outcome, ksvars>>

secure_boot_verify_chain ==
    /\ pc = "idle"
    /\ op' = "chain"
    /\ pc' = "load_key"
    /\ \E fill \in CallerFill :
         chain_key' = [i \in 1..KYBER1024_PUBLIC_KEY_BYTES |-> fill]
    /\ trace' = <<Printf("QWAMOS SECURE BOOT VERIFICATION"),
                  Printf("Step 1: Loading public key...")>>
    /\ UNCHANGED <<qwamos_public_key, image, image_size, signature, trailing,
                   public_key, computed_hash, sig_len_passed, ret,
                   load_buffer, load_size, first_outcome, ksvars>>

ChainLoadKey ==
    /\ pc = "load_key"
    /\ LET r == kyber1024_load_public_key(chain_key, Len(chain_key))
       IN  /\ chain_key' = r.key_buffer
           /\ qwamos_public_key' = r.embedded
           /\ IF r.ret # 0
              THEN /\ trace' = trace \o <<Call("kyber1024_load_public_key")>> \o r.events
                                 \o <<Printf("CRITICAL: Failed to load public key!")>>
                   /\ ret' = Returns("chain", -1)
                   /\ pc' = "done"
              ELSE /\ trace' = trace \o <<Call("kyber1024_load_public_key")>> \o r.events
                                 \o <<Printf("Public key loaded successfully.")>>
                   /\ ret' = ret
                   /\ pc' = "chain_ready"
    /\ UNCHANGED <<op, image, image_size, signature, trailing,
                   public_key, computed_hash, sig_len_passed,
                   load_buffer, load_size, first_outcome, ksvars>>

ChainReturn ==
    /\ pc = "chain_ready"
    /\ trace' = trace \o <<Printf("QWAMOS Secure Boot: Ready to verify boot images")>>
    /\ ret' = Returns("chain", 0)
    /\ pc' = "done"
    /\ UNCHANGED <<qwamos_public_key, op, image, image_size, signature, trailing,
                   public_key, computed_hash, sig_len_passed, chain_key,
                   load_buffer, load_size, first_outcome, ksvars>>

\* =============================================================
\* src/hypervisor/drivers/usb_killswitch.c
\* =============================================================
GPIO_CAMERA_KILL == 123
GPIO_MIC_KILL == 124
GPIO_CELLULAR_KILL == 125

\* errno values of the kernel the driver is built against
EIO == 5
ENOMEM == 12
EBUSY == 16
EINVAL == 22

\* half the range of the 32-bit int that sscanf("%d") stores into
HalfWord == 65536

\* the toggles; the file of toggle t is /sys/kernel/usb_killswitch/killswitch_t
Toggles == {"camera", "mic", "cellular"}

\* the GPIO line each toggle drives
GpioOf(t) ==
    CASE t = "camera" -> GPIO_CAMERA_KILL
      [] t = "mic" -> GPIO_MIC_KILL
      [] t = "cellular" -> GPIO_CELLULAR_KILL

Gpios == {GpioOf(t) : t \in Toggles}

\* the field of ks_state each toggle tracks
FieldOf(t) ==
    CASE t = "camera" -> "camera_enabled"
      [] t = "mic" -> "mic_enabled"
      [] t = "cellular" -> "cellular_enabled"

\* static struct killswitch_state ks_state = { 0, 0, 0 }
ks_state_initial == [camera_enabled |-> 0, mic_enabled |-> 0, cellular_enabled |-> 0]

\* ------------------------------------------------ sscanf(buf, "%d", &value)
\* text is a sequence of characters
DigitChars == <<"0", "1", "2", "3", "4", "5", "6", "7", "8", "9">>
IsDigit(c) == \E d \in DOMAIN DigitChars : DigitChars[d] = c
DigitValue(c) == (CHOOSE d \in DOMAIN DigitChars : DigitChars[d] = c) - 1
IsSpace(c) == c \in {" ", "\n", "\t"}

\* the text after its leading white space
RECURSIVE SkipSpaces(_)
SkipSpaces(text) ==
    IF text # << >> /\ IsSpace(Head(text)) THEN SkipSpaces(Tail(text)) ELSE text

\* the leading digits of the text accumulated in base 10 into an unsigned
\* word of IntBits bits, kept as two halves <<high, low>>; overflow wraps
RECURSIVE AccumulateDigits(_, _)
AccumulateDigits(text, acc) ==
    IF text = << >> \/ ~IsDigit(Head(text)) THEN acc
    ELSE LET low == acc[2] * 10 + DigitValue(Head(text))
             high == acc[1] * 10 + low \div HalfWord
         IN  AccumulateDigits(Tail(text), <<high % HalfWord, low % HalfWord>>)

\* the word read as a two's complement int
AsInt(word) ==
    IF word[1] >= HalfWord \div 2
    THEN (word[1] - HalfWord) * HalfWord + word[2]
    ELSE word[1] * HalfWord + word[2]

\* the word of the negated number
NegateWord(word) ==
    IF word = <<0, 0>> THEN word
    ELSE IF word[2] = 0 THEN <<HalfWord - word[1], 0>>
    ELSE <<HalfWord - 1 - word[1], HalfWord - word[2]>>

\* sscanf(buf, "%d", &value): the number of conversions made and the value
\* stored; white space is skipped, a sign is optional, the digits end at the
\* first other character, and the number is truncated to the int's width
sscanf_d(buf) ==
    LET text == SkipSpaces(buf)
        negative == text # << >> /\ Head(text) = "-"
        digits == IF negative THEN Tail(text) ELSE text
        word == AccumulateDigits(digits, <<0, 0>>)
    IN  IF digits = << >> \/ ~IsDigit(Head(digits))
        THEN [converted |-> 0, value |-> 0]
        ELSE [converted |-> 1,
              value |-> AsInt(IF negative THEN NegateWord(word) ELSE word)]

\* sprintf(buf, "%d\n", value), for the one-digit values a toggle takes
sprintf_d(value) == <<DigitChars[value + 1], "\n">>

\* the text a thread writes into an attribute file
StoreInputs ==
    {<<"0">>, <<"1">>, <<"1", "\n">>, <<"2">>, <<"-", "1">>, <<"o", "n">>, << >>,
     <<"4", "2", "9", "4", "9", "6", "7", "2", "9", "6">>}

\* ------------------------------------------------------ GPIO helpers
\* how the GPIO layer may answer gpio_init
GpioFaults == {"none", "gpio_request", "gpio_direction_output"}

\* the threads that may write attribute files at the same time
Writers == {"w1", "w2"}

NoCalls == [p \in Gpios |-> [request |-> 0, free |-> 0]]

\* the GPIO state: lines held, lines configured as outputs, levels, calls made
GpioState == [requested |-> gpio_requested, output |-> gpio_output,
              value |-> gpio_value, calls |-> gpio_calls]

\* gpio_free(gpio), which is all gpio_cleanup does
gpio_cleanup(g, gpio) ==
    [g EXCEPT !.requested = @ \ {gpio},
              !.output = @ \ {gpio},
              !.calls[gpio].free = @ + 1]

\* gpio_init(gpio, initial_value): the GPIO state after it, and its value
gpio_init(g, gpio, initial_value, fault) ==
    IF fault = "gpio_request"
    THEN [ret |-> -EBUSY, gpio |-> g]
    ELSE LET held == [g EXCEPT !.requested = @ \cup {gpio},
                               !.calls[gpio].request = @ + 1]
         IN  IF fault = "gpio_direction_output"
             THEN [ret |-> -EINVAL, gpio |-> gpio_cleanup(held, gpio)]
             ELSE [ret |-> 0,
                   gpio |-> [held EXCEPT !.output = @ \cup {gpio},
                                         !.value[gpio] = initial_value]]

\* gpio_set_state(gpio, state): gpio_set_value
gpio_set_state(levels, gpio, state) == [levels EXCEPT ![gpio] = state]

\* gpio_get_state(gpio): gpio_get_value; no function of the driver calls it
gpio_get_state(gpio) == gpio_value[gpio]

RECURSIVE CleanupAll(_, _)
CleanupAll(g, toggles) ==
    IF toggles = << >> THEN g
    ELSE CleanupAll(gpio_cleanup(g, GpioOf(Head(toggles))), Tail(toggles))

\* --------------------------------------------------- usb_killswitch_init
\* the steps of usb_killswitch_init, in source order
InitOrder == <<"camera", "mic", "cellular", "kobject", "group">>

\* variant: the failure of the cellular line leaves the microphone line held
InitCleanupForgetsMic(step) ==
    CASE step = "camera" -> << >>
      [] step = "mic" -> <<"camera">>
      [] step = "cellular" -> <<"camera">>
      [] step = "kobject" -> <<"camera", "mic", "cellular">>
      [] step = "group" -> <<"camera", "mic", "cellular">>

\* the lines usb_killswitch_init cleans up when the step fails
InitCleanup(step) ==
    CASE step = "camera" -> << >>
      [] step = "mic" -> <<"camera">>
      [] step = "cellular" -> <<"camera", "mic">>
      [] step = "kobject" -> <<"camera", "mic", "cellular">>
      [] step = "group" -> <<"camera", "mic", "cellular">>

InInit(step) == module.phase = "init" /\ InitOrder[module.step] = step

SetGpio(g) ==
    /\ gpio_requested' = g.requested
    /\ gpio_output' = g.output
    /\ gpio_value' = g.value
    /\ gpio_calls' = g.calls

\* usb_killswitch_init returns ret after cleaning up
InitFails(g, step, err) ==
    /\ SetGpio(CleanupAll(g, InitCleanup(step)))
    /\ init_ret' = <<err>>
    /\ module' = [phase |-> "failed", step |-> module.step]

InitGoesOn ==
    /\ init_ret' = init_ret
    /\ module' = [module EXCEPT !.step = @ + 1]

\* the module is loaded and its init function entered
usb_killswitch_init ==
    /\ module.phase = "unloaded"
    /\ module' = [phase |-> "init", step |-> 1]
    /\ ks_state' = ks_state_initial
    /\ ks_kobj' = "NULL"
    /\ gpio_calls' = NoCalls
    /\ UNCHANGED <<init_ret, ks_group, gpio_requested, gpio_output, gpio_value,
                   gpio_late, stores, sysfs_io, bootvars>>

InitGpio(t) ==
    /\ \E fault \in GpioFaults :
         LET r == gpio_init(GpioState, GpioOf(t), 0, fault)
         IN  IF r.ret # 0
             THEN InitFails(r.gpio, t, r.ret)
             ELSE SetGpio(r.gpio) /\ InitGoesOn
    /\ UNCHANGED <<ks_state, ks_kobj, ks_group, gpio_late, stores, sysfs_io, bootvars>>

\* ret = gpio_init(GPIO_CAMERA_KILL, "camera_kill", 0)
InitCamera ==
    /\ InInit("camera")
    /\ InitGpio("camera")

\* ret = gpio_init(GPIO_MIC_KILL, "mic_kill", 0)
InitMic ==
    /\ InInit("mic")
    /\ InitGpio("mic")

\* ret = gpio_init(GPIO_CELLULAR_KILL, "cellular_kill", 0)
InitCellular ==
    /\ InInit("cellular")
    /\ InitGpio("cellular")

\* ks_kobj = kobject_create_and_add("usb_killswitch", kernel_kobj)
InitKobject ==
    /\ InInit("kobject")
    /\ \E kobj \in {"NULL", "live"} :
         /\ ks_kobj' = kobj
         /\ IF kobj = "NULL"
            THEN InitFails(GpioState, "kobject", -ENOMEM)
            ELSE InitGoesOn /\ UNCHANGED <<gpio_requested, gpio_output, gpio_value,
                                           gpio_calls>>
    /\ UNCHANGED <<ks_state, ks_group, gpio_late, stores, sysfs_io, bootvars>>

\* ret = sysfs_create_group(ks_kobj, &attr_group)
InitGroup ==
    /\ InInit("group")
    /\ \E r \in {0, -ENOMEM} :
         IF r # 0
         THEN /\ ks_kobj' = "released"
              /\ ks_group' = FALSE
              /\ InitFails(GpioState, "group", r)
         ELSE /\ ks_group' = TRUE
              /\ init_ret' = <<0>>
              /\ module' = [phase |-> "loaded", step |-> 0]
              /\ UNCHANGED <<ks_kobj, gpio_requested, gpio_output, gpio_value,
                             gpio_calls>>
    /\ UNCHANGED <<ks_state, gpio_late, stores, sysfs_io, bootvars>>

\* ------------------------------------------------- the sysfs callbacks
\* the attribute files exist and may be opened, read and written
FilesPresent == module.phase \in {"loaded", "exit"} /\ ks_group

\* no read or write is handing its result back to its thread
NoneReturning == sysfs_io = << >>

NoStore == [w \in Writers |-> << >>]
InStore(w) == stores[w] # << >>

\* another thread is inside a store callback
OthersInStore(w) == \E v \in Writers \ {w} : InStore(v)

\* a callback in progress, noted as having run beside another one
Overlapped(store) ==
    IF store = << >> THEN store ELSE <<[store[1] EXCEPT !.overlapped = TRUE]>>

\* the two tests of a store callback on what sscanf delivered
StoreAccepts(r) == ~(r.converted # 1) /\ ~(r.value # 0 /\ r.value # 1)

\* a store callback up to the assignment to ks_state
Store(w, t, buf) ==
    /\ LET r == sscanf_d(buf)
       IN  IF StoreAccepts(r)
           THEN /\ ks_state' = [ks_state EXCEPT ![FieldOf(t)] = r.value]
                /\ stores' = [v \in Writers |->
                                IF v = w
                                THEN <<[attr |-> t, buf |-> buf, value |-> r.value,
                                        overlapped |-> OthersInStore(w)]>>
                                ELSE Overlapped(stores[v])]
                /\ UNCHANGED sysfs_io
           ELSE /\ sysfs_io' = <<[op |-> "store", attr |-> t, buf |-> buf,
                                  ret |-> -EINVAL]>>
                /\ UNCHANGED <<ks_state, stores>>
    /\ UNCHANGED <<module, init_ret, ks_kobj, ks_group, gpio_requested, gpio_output,
                   gpio_value, gpio_calls, gpio_late, bootvars>>

camera_store ==
    /\ FilesPresent
    /\ NoneReturning
    /\ \E w \in Writers : \E buf \in StoreInputs :
         /\ ~InStore(w)
         /\ Store(w, "camera", buf)

mic_store ==
    /\ FilesPresent
    /\ NoneReturning
    /\ \E w \in Writers : \E buf \in StoreInputs :
         /\ ~InStore(w)
         /\ Store(w, "mic", buf)

cellular_store ==
    /\ FilesPresent
    /\ NoneReturning
    /\ \E w \in Writers : \E buf \in StoreInputs :
         /\ ~InStore(w)
         /\ Store(w, "cellular", buf)

\* the steps of usb_killswitch_exit, in source order
ExitOrder ==
    <<[call |-> "sysfs_remove_group", arg |-> "attr_group"],
      [call |-> "kobject_put", arg |-> "ks_kobj"],
      [call |-> "gpio_set_state", arg |-> "camera"],
      [call |-> "gpio_set_state", arg |-> "mic"],
      [call |-> "gpio_set_state", arg |-> "cellular"],
      [call |-> "gpio_cleanup", arg |-> "camera"],
      [call |-> "gpio_cleanup", arg |-> "mic"],
      [call |-> "gpio_cleanup", arg |-> "cellular"]>>

\* the lines usb_killswitch_exit has driven LOW so far
DrivenLow ==
    IF module.phase # "exit" THEN {}
    ELSE {GpioOf(ExitOrder[i].arg) :
            i \in {j \in 1..(module.step - 1) : ExitOrder[j].call = "gpio_set_state"}}

\* a write of a line that is not held, or that exit has driven LOW already
Late(gpio) == IF gpio \notin gpio_requested \/ gpio \in DrivenLow THEN {gpio} ELSE {}

\* the rest of a store callback: gpio_set_state, pr_info, return count
StoreSetGpio ==
    \E w \in Writers :
        /\ InStore(w)
        /\ NoneReturning
        /\ LET s == stores[w][1]
           IN  /\ gpio_value' = gpio_set_state(gpio_value, GpioOf(s.attr), s.value)
               /\ gpio_late' = gpio_late \cup Late(GpioOf(s.attr))
               /\ sysfs_io' = <<[op |-> "store", attr |-> s.attr, buf |-> s.buf,
                                 ret |-> Len(s.buf)]>>
        /\ stores' = [stores EXCEPT ![w] = << >>]
        /\ UNCHANGED <<module, init_ret, ks_state, ks_kobj, ks_group, gpio_requested,
                       gpio_output, gpio_calls, bootvars>>

\* variant: every toggle's file prints the camera's field
toggle_show_camera_field(t) == sprintf_d(ks_state.camera_enabled)
\* camera_show, mic_show, cellular_show: sprintf(buf, "%d\n", ks_state.<field>)
toggle_show(t) == sprintf_d(ks_state[FieldOf(t)])

Show(t) ==
    /\ sysfs_io' = <<[op |-> "show", attr |-> t, out |-> toggle_show(t)]>>
    /\ UNCHANGED <<module, init_ret, ks_state, ks_kobj, ks_group, gpio_requested,
                   gpio_output, gpio_value, gpio_calls, gpio_late, stores, bootvars>>

camera_show ==
    /\ FilesPresent
    /\ NoneReturning
    /\ Show("camera")

mic_show ==
    /\ FilesPresent
    /\ NoneReturning
    /\ Show("mic")

cellular_show ==
    /\ FilesPresent
    /\ NoneReturning
    /\ Show("cellular")

\* the lines of the text status_show prints
StatusText ==
    <<"Camera: " \o (IF ks_state.camera_enabled # 0 THEN "OFF" ELSE "ON"),
      "Mic: " \o (IF ks_state.mic_enabled # 0 THEN "OFF" ELSE "ON"),
      "Cellular: " \o (IF ks_state.cellular_enabled # 0 THEN "OFF" ELSE "ON")>>

status_show ==
    /\ FilesPresent
    /\ NoneReturning
    /\ sysfs_io' = <<[op |-> "show", attr |-> "status", out |-> StatusText]>>
    /\ UNCHANGED <<module, init_ret, ks_state, ks_kobj, ks_group, gpio_requested,
                   gpio_output, gpio_value, gpio_calls, gpio_late, stores, bootvars>>

\* status_attr = __ATTR(status, 0400, status_show, NULL)
status_attr == [name |-> "status", show |-> "status_show", store |-> "NULL"]

\* a write into the status file: there is no callback to take it
StatusWrite ==
    /\ FilesPresent
    /\ NoneReturning
    /\ status_attr.store = "NULL"
    /\ sysfs_io' = <<[op |-> "store", attr |-> "status", ret |-> -EIO]>>
    /\ UNCHANGED <<module, init_ret, ks_state, ks_kobj, ks_group, gpio_requested,
                   gpio_output, gpio_value, gpio_calls, gpio_late, stores, bootvars>>

\* --------------------------------------------------- usb_killswitch_exit
InExit(call) ==
    /\ module.phase = "exit"
    /\ module.step <= Len(ExitOrder)
    /\ ExitOrder[module.step].call = call

ExitGoesOn == module' = [module EXCEPT !.step = @ + 1]

\* variant: the removal of the files does not wait for the callbacks
CallbacksDrainedNever == TRUE
\* sysfs_remove_group returns once no callback of the group is running
CallbacksDrained == \A w \in Writers : ~InStore(w)

\* the module is being removed and its exit function entered
usb_killswitch_exit ==
    /\ module.phase = "loaded"
    /\ NoneReturning
    /\ module' = [phase |-> "exit", step |-> 1]
    /\ UNCHANGED <<init_ret, ks_state, ks_kobj, ks_group, gpio_requested, gpio_output,
                   gpio_value, gpio_calls, gpio_late, stores, sysfs_io, bootvars>>

\* sysfs_remove_group(ks_kobj, &attr_group)
ExitRemoveGroup ==
    /\ InExit("sysfs_remove_group")
    /\ NoneReturning
    /\ CallbacksDrained
    /\ ks_group' = FALSE
    /\ ExitGoesOn
    /\ UNCHANGED <<init_ret, ks_state, ks_kobj, gpio_requested, gpio_output,
                   gpio_value, gpio_calls, gpio_late, stores, sysfs_io, bootvars>>

\* kobject_put(ks_kobj)
ExitKobjectPut ==
    /\ InExit("kobject_put")
    /\ ks_kobj' = "released"
    /\ ExitGoesOn
    /\ UNCHANGED <<init_ret, ks_state, ks_group, gpio_requested, gpio_output,
                   gpio_value, gpio_calls, gpio_late, stores, sysfs_io, bootvars>>

\* gpio_set_state(GPIO_..._KILL, 0)
ExitSetLow ==
    /\ InExit("gpio_set_state")
    /\ LET gpio == GpioOf(ExitOrder[module.step].arg)
       IN  /\ gpio_value' = gpio_set_state(gpio_value, gpio, 0)
           /\ gpio_late' = gpio_late \cup Late(gpio)
    /\ ExitGoesOn
    /\ UNCHANGED <<init_ret, ks_state, ks_kobj, ks_group, gpio_requested, gpio_output,
                   gpio_calls, stores, sysfs_io, bootvars>>

\* gpio_cleanup(GPIO_..._KILL)
ExitCleanup ==
    /\ InExit("gpio_cleanup")
    /\ SetGpio(gpio_cleanup(GpioState, GpioOf(ExitOrder[module.step].arg)))
    /\ ExitGoesOn
    /\ UNCHANGED <<init_ret, ks_state, ks_kobj, ks_group, gpio_late, stores,
                   sysfs_io, bootvars>>

\* ------------------------------------------------------- the environment
\* the module's memory is released: init failed, or exit has returned
Unload ==
    /\ \/ module.phase = "failed"
       \/ module.phase = "exit" /\ module.step > Len(ExitOrder)
    /\ module' = [phase |-> "unloaded", step |-> 0]
    /\ init_ret' = << >>
    /\ ks_state' = ks_state_initial
    /\ ks_kobj' = "NULL"
    /\ ks_group' = FALSE
    /\ gpio_calls' = NoCalls
    /\ gpio_late' = {}
    /\ stores' = NoStore
    /\ sysfs_io' = << >>
    /\ UNCHANGED <<gpio_requested, gpio_output, gpio_value, bootvars>>

\* the read or write returns to its thread
SysfsReturn ==
    /\ ~NoneReturning
    /\ sysfs_io' = << >>
    /\ UNCHANGED <<module, init_ret, ks_state, ks_kobj, ks_group, gpio_requested,
                   gpio_output, gpio_value, gpio_calls, gpio_late, stores, bootvars>>

\* somebody outside the driver changes the level of a line
Tamper ==
    /\ module.phase = "loaded"
    /\ NoneReturning
    /\ \E gpio \in Gpios : \E level \in {0, 1} \ {gpio_value[gpio]} :
         gpio_value' = [gpio_value EXCEPT ![gpio] = level]
    /\ UNCHANGED <<module, init_ret, ks_state, ks_kobj, ks_group, gpio_requested,
                   gpio_output, gpio_calls, gpio_late, stores, sysfs_io, bootvars>>

\* the driver is not loaded
Unloaded ==
    /\ module = [phase |-> "unloaded", step |-> 0]
    /\ init_ret = << >>
    /\ ks_state = ks_state_initial
    /\ ks_kobj = "NULL"
    /\ ks_group = FALSE
    /\ gpio_requested = {}
    /\ gpio_output = {}
    /\ gpio_value \in [Gpios -> {0, 1}]
    /\ gpio_calls = NoCalls
    /\ gpio_late = {}
    /\ stores = NoStore
    /\ sysfs_io = << >>


\* ------------------------------------------------- the state machine
Idle ==
    /\ op = NoValue
    /\ pc = "idle"
    /\ image = << >>
    /\ image_size = 0
    /\ signature = NoValue
    /\ trailing = 0
    /\ public_key = NoValue
    /\ computed_hash = NoValue
    /\ sig_len_passed = << >>
    /\ ret = NoRet
    /\ chain_key = NoValue
    /\ trace = << >>
    /\ load_buffer = NoValue
    /\ load_size = 0
    /\ first_outcome = << >>

Init ==
    /\ qwamos_public_key = EmbeddedKeyBytes
    /\ Idle
    /\ Unloaded
    /\ gpio_value = [gpio \in Gpios |-> 0]

\* the boot sequencer has its answer; the locals of the call are gone
Return ==
    /\ pc = "done"
    /\ op' = NoValue
    /\ pc' = "idle"
    /\ image' = << >>
    /\ image_size' = 0
    /\ signature' = NoValue
    /\ trailing' = 0
    /\ public_key' = NoValue
    /\ computed_hash' = NoValue
    /\ sig_len_passed' = << >>
    /\ ret' = NoRet
    /\ chain_key' = NoValue
    /\ trace' = << >>
    /\ load_buffer' = NoValue
    /\ load_size' = 0
    /\ first_outcome' = << >>
    /\ UNCHANGED <<qwamos_public_key, ksvars>>

Next ==
    \/ kyber1024_verify_image
    \/ kyber1024_verify_kernel
    \/ kyber1024_verify_initramfs
    \/ secure_boot_verify_chain
    \/ CheckMagic
    \/ CheckVersion
    \/ CheckSize
    \/ ComputeHash
    \/ CheckHash
    \/ SigNew
    \/ SigVerify
    \/ SigCheck
    \/ VerifyImageReturn
    \/ KernelReturn
    \/ InitramfsReturn
    \/ ChainLoadKey
    \/ ChainReturn
    \/ CallLoadPublicKey
    \/ LoadPublicKey
    \/ VerifyImageAgain
    \/ VerifyImageOtherReserved
    \/ Fault
    \/ Return

Spec == Init /\ [][Next]_vars

\* ------------------------------------- the kill-switch driver's machine
\* the bootloader has handed over; the driver runs in the booted system,
\* where the bootloader's memory is no longer there
BootOver ==
    /\ qwamos_public_key = << >>
    /\ Idle

KSInit ==
    /\ BootOver
    /\ Unloaded

KSNext ==
    \/ usb_killswitch_init
    \/ InitCamera
    \/ InitMic
    \/ InitCellular
    \/ InitKobject
    \/ InitGroup
    \/ camera_show
    \/ camera_store
    \/ mic_show
    \/ mic_store
    \/ cellular_show
    \/ cellular_store
    \/ StoreSetGpio
    \/ status_show
    \/ StatusWrite
    \/ SysfsReturn
    \/ usb_killswitch_exit
    \/ ExitRemoveGroup
    \/ ExitKobjectPut
    \/ ExitSetLow
    \/ ExitCleanup
    \/ Unload

SpecKS == KSInit /\ [][KSNext]_vars

\* the same driver with somebody at the lines
TamperNext ==
    \/ KSNext
    \/ Tamper

SpecTamper == KSInit /\ [][TamperNext]_vars

\* ====================================================== properties
InVerifyImage == op \in {"image", "kernel", "initramfs"}
InWrapper == op \in {"kernel", "initramfs"}
Has(e) == \E i \in DOMAIN trace : trace[i] = e
Count(e) == Cardinality({i \in DOMAIN trace : trace[i] = e})
Before(e, f) == \E i, j \in DOMAIN trace : i < j /\ trace[i] = e /\ trace[j] = f

\* the checks of kyber1024_verify_image, in source order
Checks == <<"magic", "version", "image_size", "image_hash", "signature">>

MagicWrong == signature.magic # QWAMOS_SIG_MAGIC
VersionWrong == signature.version # QWAMOS_SIG_VERSION
SizeWrong == signature.image_size # image_size
HashWrong == OQS_SHA2_sha256(SubSeq(image, 1, image_size)) # signature.image_hash
SignatureRejected == Returned("signature") /\ ret["signature"] # 0

Violated(check) ==
    CASE check = "magic" -> MagicWrong
      [] check = "version" -> VersionWrong
      [] check = "image_size" -> SizeWrong
      [] check = "image_hash" -> HashWrong
      [] OTHER -> SignatureRejected

Evaluated(check) ==
    CASE check = "magic" -> Has(Read("magic"))
      [] check = "version" -> Has(Read("version"))
      [] check = "image_size" -> Has(Read("image_size"))
      [] check = "image_hash" -> Has(Call("sha256_hash")) \/ Has(Read("image_hash"))
      [] OTHER -> \/ Has(Call("kyber1024_verify_signature"))
                  \/ Has(Call("OQS_SIG_new"))
                  \/ Has(Call("OQS_SIG_verify"))

\* check number i is the earliest violated one
FirstViolated(i) == Violated(Checks[i]) /\ \A k \in 1..(i - 1) : ~Violated(Checks[k])

NoCryptography ==
    /\ ~Has(Call("sha256_hash"))
    /\ ~Has(Call("OQS_SIG_new"))
    /\ ~Has(Call("OQS_SIG_verify"))
    /\ sig_len_passed = << >>

NoSignaturePrimitive ==
    /\ ~Has(Call("OQS_SIG_new"))
    /\ ~Has(Call("OQS_SIG_verify"))
    /\ sig_len_passed = << >>

\* the primitive, asked about exactly (digest, trailer signature, key), accepts
PrimitiveAccepts ==
    /\ ~Has(Printf("ERROR: Failed to initialize Kyber signature scheme"))
    /\ Verify(OQS_SHA2_sha256(SubSeq(image, 1, image_size)),
              signature.kyber_signature, KeyBytes(public_key))

AllFiveHold ==
    /\ ~MagicWrong
    /\ ~VersionWrong
    /\ ~SizeWrong
    /\ ~HashWrong
    /\ PrimitiveAccepts

\* C1: kyber1024_verify_image returns 0 exactly when magic, version and
\* image_size are right, the digest of the payload equals image_hash and the
\* signature primitive accepts (digest, trailer signature, public key); in
\* every other case it returns -1.
C1_ReturnsZeroIffAllFive ==
    (InVerifyImage /\ Returned("image")) =>
        /\ ret["image"] \in {0, -1}
        /\ (ret["image"] = 0) <=> AllFiveHold

\* C2: a wrapper returns 0 only if kyber1024_verify_image returned 0 for the
\* payload, the trailer behind it and the embedded key; when that
\* verification fails the wrapper returns -1.
C2_WrappersFailClosed ==
    (InWrapper /\ Returned("wrapper")) =>
        /\ Returned("image")
        /\ Has(Call("kyber1024_verify_image"))
        /\ public_key = "qwamos_public_key"
        /\ image_size = Len(image)
        /\ ret["wrapper"] \in {0, -1}
        /\ (ret["wrapper"] = 0 => ret["image"] = 0)
        /\ (ret["image"] # 0 => ret["wrapper"] = -1)

\* a wrapper has returned after a failed verification
C2_Witness ==
    /\ op = "kernel"
    /\ Returned("wrapper")
    /\ ret["image"] = -1

\* C3: secure_boot_verify_chain returns 0 only if the kernel and the
\* initramfs have both been verified successfully during that call.
C3_ChainVerifiesEveryImage ==
    (op = "chain" /\ Returned("chain") /\ ret["chain"] = 0) =>
        /\ Has(Printf("Kernel signature verified successfully."))
        /\ Has(Printf("Initramfs signature verified successfully."))

\* C4: the chain loads the key once, then verifies the kernel and after it
\* the initramfs, and does not start on the initramfs when the kernel fails.
C4_ChainOrderAndShortCircuit ==
    (op = "chain" /\ Returned("chain")
        /\ Has(Printf("Public key loaded successfully."))) =>
        /\ Count(Call("kyber1024_load_public_key")) = 1
        /\ Before(Call("kyber1024_load_public_key"),
                  Printf("=== QWAMOS Secure Boot: Kernel Verification ==="))
        /\ (Has(Printf("=== QWAMOS Secure Boot: Initramfs Verification ===")) =>
              Before(Printf("Kernel signature verified successfully."),
                     Printf("=== QWAMOS Secure Boot: Initramfs Verification ===")))
        /\ (Has(Printf("CRITICAL: Kernel signature verification FAILED!")) =>
              ~Has(Printf("=== QWAMOS Secure Boot: Initramfs Verification ===")))

\* C5: when magic, version or image_size is wrong, neither sha256_hash nor
\* OQS_SIG_new / OQS_SIG_verify is called at any point of the call; a wrong
\* magic ends the call with the invalid-magic failure.
C5_StructuralBeforeCryptography ==
    (InVerifyImage /\ (MagicWrong \/ VersionWrong \/ SizeWrong)) =>
        /\ NoCryptography
        /\ (MagicWrong /\ Returned("image")) =>
              /\ ret["image"] = -1
              /\ Has(Printf(ErrorMessage("magic")))

\* a call with a wrong image_size (magic and version right) has returned
C5_Witness ==
    /\ InVerifyImage
    /\ Returned("image")
    /\ ~MagicWrong
    /\ ~VersionWrong
    /\ SizeWrong

\* the trailer records the digest of another payload than the one in memory
PayloadDiffersFromSigned ==
    \E p \in Payloads : p # image /\ signature.image_hash = OQS_SHA2_sha256(p)

\* C6: with magic, version and image_size intact and a payload that differs
\* from the signed one, the call fails at the hash comparison and never
\* reaches the signature primitive.
C6_TamperedPayloadFailsAtHash ==
    (InVerifyImage /\ ~MagicWrong /\ ~VersionWrong /\ ~SizeWrong
        /\ PayloadDiffersFromSigned) =>
        /\ NoSignaturePrimitive
        /\ Returned("image") =>
              /\ ret["image"] = -1
              /\ Has(Printf(ErrorMessage("image_hash")))

\* a payload with exactly one byte changed against the signed one, call returned
C6_Witness ==
    /\ InVerifyImage
    /\ Returned("image")
    /\ ~MagicWrong /\ ~VersionWrong /\ ~SizeWrong
    /\ \E p \in Payloads :
         /\ Len(p) = Len(image)
         /\ Cardinality({i \in 1..Len(p) : p[i] # image[i]}) = 1
         /\ signature.image_hash = OQS_SHA2_sha256(p)

\* C7: the checks run in the order magic, version, image_size, hash,
\* signature; no check after the earliest violated one is evaluated, and the
\* failure reported is that of the earliest violated check.
C7_ShortCircuitInOrder ==
    InVerifyImage =>
        /\ \A i \in 1..Len(Checks) : \A j \in (i + 1)..Len(Checks) :
              Evaluated(Checks[j]) => Evaluated(Checks[i])
        /\ \A i \in 1..Len(Checks) : FirstViolated(i) =>
              /\ \A j \in (i + 1)..Len(Checks) : ~Evaluated(Checks[j])
              /\ Returned("image") =>
                    /\ ret["image"] = -1
                    /\ Has(Printf(ErrorMessage(Checks[i])))

\* magic and version are both wrong, and the call has returned
C7_Witness ==
    /\ InVerifyImage
    /\ Returned("image")
    /\ MagicWrong
    /\ VersionWrong

\* C8 as claimed: the value returned for a failing check is a value no other
\* failing check returns, so the caller can tell the reasons apart.
C8_ReturnValueNamesTheCheck ==
    (InVerifyImage /\ Returned("image") /\ ret["image"] # 0) =>
        \A i \in 1..Len(Checks) : FirstViolated(i) =>
            \A j \in 1..Len(Checks) : j # i => ret["image"] # FailureCode(Checks[j])

\* C8 as amended: every failure returns -1; the reason is told apart by the
\* message printed, one per check and no two alike, and the wrapper's message
\* names the image.
C8_ReasonOnlyInTheLog ==
    (InVerifyImage /\ Returned("image") /\ ret["image"] # 0) =>
        /\ ret["image"] = -1
        /\ \A i \in 1..Len(Checks) : FirstViolated(i) =>
              /\ Has(Printf(ErrorMessage(Checks[i])))
              /\ \A j \in 1..Len(Checks) : j # i => ~Has(Printf(ErrorMessage(Checks[j])))
        /\ (op = "kernel" /\ Returned("wrapper")) =>
              /\ ret["wrapper"] = -1
              /\ Has(Printf("CRITICAL: Kernel signature verification FAILED!"))
        /\ (op = "initramfs" /\ Returned("wrapper")) =>
              /\ ret["wrapper"] = -1
              /\ Has(Printf("CRITICAL: Initramfs signature verification FAILED!"))

\* the initramfs wrapper has returned after a hash mismatch
C8_Witness ==
    /\ op = "initramfs"
    /\ Returned("wrapper")
    /\ ret["image"] # 0
    /\ FirstViolated(4)

\* C9: when fewer than sizeof(struct qwamos_signature) bytes were loaded
\* behind the payload, no trailer field is read and verification fails.
C9_TrailerLengthCheckedFirst ==
    (InWrapper /\ trailing < SizeofSignature) =>
        /\ \A f \in {"magic", "version", "image_size", "image_hash", "kyber_signature"} :
              ~Has(Read(f))
        /\ NoSignaturePrimitive
        /\ Returned("wrapper") => ret["wrapper"] = -1

\* the lengths of the initialised scheme are not those of the field and key
LengthsDiffer ==
    \/ DILITHIUM5_LENGTH_SIGNATURE # KYBER1024_SIGNATURE_BYTES
    \/ DILITHIUM5_LENGTH_PUBLIC_KEY # Len(KeyBytes(public_key))

\* C10: the verifier never hands the primitive a signature length above the
\* size of the trailer's signature field, and returns failure whenever the
\* scheme's lengths differ from those of the field and of the key.
C10_RejectsOnLengthMismatch ==
    InVerifyImage =>
        /\ \A i \in DOMAIN sig_len_passed : sig_len_passed[i] <= KYBER1024_SIGNATURE_BYTES
        /\ (Returned("signature") /\ LengthsDiffer) => ret["signature"] = -1


\* ------------------------------------------------------------ the key
LoadCalled == op = "load" /\ Returned("load")

\* C11: kyber1024_load_public_key returns -1 and writes nothing into the
\* caller's buffer when key_size is below KYBER1024_PUBLIC_KEY_BYTES;
\* otherwise it returns 0, the first KYBER1024_PUBLIC_KEY_BYTES bytes of the
\* buffer equal the embedded key and the bytes beyond them are as they were.
C11_LoadPublicKeyChecksTheSize ==
    [][pc = "load" /\ pc' = "done" =>
         IF load_size < KYBER1024_PUBLIC_KEY_BYTES
         THEN /\ ret'["load"] = -1
              /\ load_buffer' = load_buffer
         ELSE /\ ret'["load"] = 0
              /\ DOMAIN load_buffer' = DOMAIN load_buffer
              /\ \A i \in DOMAIN load_buffer :
                    load_buffer'[i] = IF i <= KYBER1024_PUBLIC_KEY_BYTES
                                      THEN qwamos_public_key[i]
                                      ELSE load_buffer[i]]_vars

\* a buffer longer than the key has been filled
C11_Witness ==
    /\ LoadCalled
    /\ ret["load"] = 0
    /\ load_size > KYBER1024_PUBLIC_KEY_BYTES
    /\ load_buffer[load_size] \in CallerFill

\* C12: no operation writes the embedded key, the payload or the trailer:
\* every step of kyber1024_load_public_key, kyber1024_verify_image,
\* kyber1024_verify_kernel, kyber1024_verify_initramfs and
\* secure_boot_verify_chain leaves qwamos_public_key as it is, a
\* verification leaves image, image_size and the trailer as they were
\* handed over from its entry to its return, and every successful load
\* delivers the same key bytes.
C12_EmbeddedKeyAndInputsNeverWritten ==
    [][/\ qwamos_public_key' = qwamos_public_key
       /\ (InVerifyImage /\ pc # "done" /\ pc' # "idle") =>
             /\ image' = image
             /\ image_size' = image_size
             /\ signature' = signature
       /\ (pc = "load" /\ ret'["load"] = 0) =>
             SubSeq(load_buffer', 1, KYBER1024_PUBLIC_KEY_BYTES) = EmbeddedKeyBytes
       /\ (pc = "load_key" /\ pc' = "chain_ready") =>
             chain_key' = EmbeddedKeyBytes]_vars

\* a key has been loaded after verifications may have run
C12_Witness ==
    /\ op = "chain"
    /\ Returned("chain")
    /\ chain_key = EmbeddedKeyBytes
    /\ qwamos_public_key = EmbeddedKeyBytes

Failed(fn) == Returned(fn) /\ ret[fn] = -1

\* the CRITICAL message of the wrapper in progress
WrapperFailureMessage ==
    IF op = "kernel" THEN "CRITICAL: Kernel signature verification FAILED!"
    ELSE "CRITICAL: Initramfs signature verification FAILED!"

WrapperSuccessMessage ==
    IF op = "kernel" THEN "Kernel signature verified successfully."
    ELSE "Initramfs signature verified successfully."

\* C14: whenever kyber1024_verify_image, kyber1024_verify_signature,
\* kyber1024_load_public_key, kyber1024_verify_kernel or
\* kyber1024_verify_initramfs has returned -1, the log of the call holds
\* the error message of the check that failed; the success messages are
\* in the log only when the function that prints them returns 0.
C14_FailureLoggedBeforeReturn ==
    /\ Failed("signature") =>
          \/ Has(Printf("ERROR: Failed to initialize Kyber signature scheme"))
          \/ Has(Printf("ERROR: Signature verification failed!"))
    /\ (InVerifyImage /\ Failed("image")) =>
          \E i \in DOMAIN Checks :
              /\ Has(Printf(ErrorMessage(Checks[i])))
              /\ Checks[i] # "signature" => FirstViolated(i)
              /\ Checks[i] = "signature" => Failed("signature")
    /\ Failed("load") => Has(Printf("ERROR: Key buffer too small"))
    /\ (InWrapper /\ Failed("wrapper")) => Has(Printf(WrapperFailureMessage))
    /\ Has(Printf("SUCCESS: Image signature verified (Kyber-1024)")) =>
          Returned("image") /\ ret["image"] = 0
    /\ (InWrapper /\ Has(Printf(WrapperSuccessMessage))) =>
          Returned("wrapper") /\ ret["wrapper"] = 0

\* a short buffer has been refused and the refusal is in the log
C14_Witness ==
    /\ LoadCalled
    /\ Failed("load")
    /\ Has(Printf("ERROR: Key buffer too small"))
    /\ load_size < KYBER1024_PUBLIC_KEY_BYTES

\* ------------------------------------------------ the kill switches
\* the content is the number 0 or the number 1, with or without a line end
WritesZeroOrOne(buf) == buf \in {<<"0">>, <<"1">>, <<"0", "\n">>, <<"1", "\n">>}

\* the store callback of a toggle has just refused or completed a write
StoreReturned ==
    /\ sysfs_io # << >>
    /\ sysfs_io[1].op = "store"
    /\ sysfs_io[1].attr \in Toggles

\* C15: a toggle takes a write only if its content is the number 0 or the
\* number 1: a write of anything else (no integer, or another integer)
\* returns -EINVAL and never gets as far as ks_state or a GPIO line; a
\* write into status finds no store callback.
C15_OnlyZeroAndOneAccepted ==
    /\ \A w \in Writers : InStore(w) => WritesZeroOrOne(stores[w][1].buf)
    /\ StoreReturned =>
          IF WritesZeroOrOne(sysfs_io[1].buf)
          THEN sysfs_io[1].ret = Len(sysfs_io[1].buf)
          ELSE sysfs_io[1].ret = -EINVAL
    /\ (sysfs_io # << >> /\ sysfs_io[1].op = "store" /\ sysfs_io[1].attr = "status") =>
          sysfs_io[1].ret < 0

\* a read of the file of a toggle, or of status, has just returned
ShowReturned(attr) ==
    /\ sysfs_io # << >>
    /\ sysfs_io[1].op = "show"
    /\ sysfs_io[1].attr = attr

\* a store callback of the toggle is between its two assignments
StoreInProgress(t) == \E w \in Writers : InStore(w) /\ stores[w][1].attr = t

\* the text status would print if it went by the levels of the lines
StatusByLevel ==
    <<"Camera: " \o (IF gpio_get_state(GPIO_CAMERA_KILL) # 0 THEN "OFF" ELSE "ON"),
      "Mic: " \o (IF gpio_get_state(GPIO_MIC_KILL) # 0 THEN "OFF" ELSE "ON"),
      "Cellular: " \o (IF gpio_get_state(GPIO_CELLULAR_KILL) # 0 THEN "OFF" ELSE "ON")>>

\* C16: the driver notices a level that changed without a store: a read
\* of a toggle, or of status, made while no store is in progress reports
\* the level the line has, not a tracked value the line no longer has.
C16_TamperIsDetected ==
    /\ \A t \in Toggles :
          (ShowReturned(t) /\ ~StoreInProgress(t)) =>
              sysfs_io[1].out = sprintf_d(gpio_get_state(GpioOf(t)))
    /\ (ShowReturned("status") /\ \A w \in Writers : ~InStore(w)) =>
          sysfs_io[1].out = StatusByLevel

\* the line of status for a toggle says OFF
StatusSaysOff(t) ==
    CASE t = "camera" -> StatusText[1] = "Camera: OFF"
      [] t = "mic" -> StatusText[2] = "Mic: OFF"
      [] t = "cellular" -> StatusText[3] = "Cellular: OFF"

\* thread w completes a store in this step, having run beside no other one
CompletesAlone(w) ==
    /\ InStore(w)
    /\ ~InStore(w)'
    /\ ~stores[w][1].overlapped

\* C17: a store of v into a toggle has two steps, each of which leaves the
\* other toggles' tracked state and lines alone; when it completes without
\* having overlapped another store, a read of the toggle returns v and its
\* line is at v. status says OFF for exactly the toggles that read 1, and
\* after a load all three toggles read 0.
C17_StoreThenRead ==
    [][/\ \A w \in Writers :
            /\ (~InStore(w) /\ InStore(w)') =>
                  /\ gpio_value' = gpio_value
                  /\ ks_state' = [ks_state EXCEPT ![FieldOf(stores'[w][1].attr)] =
                                                    stores'[w][1].value]
            /\ (InStore(w) /\ ~InStore(w)') =>
                  /\ ks_state' = ks_state
                  /\ gpio_value' = [gpio_value EXCEPT ![GpioOf(stores[w][1].attr)] =
                                                        stores[w][1].value]
            /\ CompletesAlone(w) =>
                  \A t \in Toggles : \A v \in {0, 1} :
                      (stores[w][1].attr = t /\ stores[w][1].value = v) =>
                          /\ toggle_show(t)' = sprintf_d(v)
                          /\ gpio_value'[GpioOf(t)] = v
       /\ \A t \in Toggles : StatusSaysOff(t)' <=> (toggle_show(t)' = sprintf_d(1))
       /\ (module.phase = "init" /\ module'.phase = "loaded") =>
             \A t \in Toggles : toggle_show(t)' = sprintf_d(0)]_vars

\* the microphone's file has been read after a store of 1 into it alone
C17_Witness ==
    /\ ShowReturned("mic")
    /\ sysfs_io[1].out = <<"1", "\n">>
    /\ gpio_value[GPIO_MIC_KILL] = 1
    /\ gpio_value[GPIO_CAMERA_KILL] = 0
    /\ ks_state.camera_enabled = 0
    /\ StatusText = <<"Camera: ON", "Mic: OFF", "Cellular: ON">>

\* usb_killswitch_init returns in this step
InitReturnsFailure == module.phase = "init" /\ module'.phase = "failed"
InitReturnsSuccess == module.phase = "init" /\ module'.phase = "loaded"

\* C18: usb_killswitch_init leaks nothing: when it returns non-zero, at
\* whichever step it failed, no GPIO line is held, every line that was
\* requested has been freed exactly once, no line has been freed
\* otherwise, the kobject (if created) is released and no attribute group
\* is registered; when it returns 0 the three lines are held, outputs, at
\* level 0, none freed, and the kobject and its attribute group exist.
C18_InitLeaksNothing ==
    [][/\ InitReturnsFailure =>
             /\ init_ret' # << >>
             /\ init_ret'[1] # 0
             /\ gpio_requested' = {}
             /\ gpio_output' = {}
             /\ \A gpio \in Gpios :
                   /\ gpio_calls'[gpio].request <= 1
                   /\ gpio_calls'[gpio].free = gpio_calls'[gpio].request
             /\ ks_kobj' \in {"NULL", "released"}
             /\ ~ks_group'
       /\ InitReturnsSuccess =>
             /\ init_ret' = <<0>>
             /\ gpio_requested' = Gpios
             /\ gpio_output' = Gpios
             /\ \A gpio \in Gpios :
                   /\ gpio_value'[gpio] = 0
                   /\ gpio_calls'[gpio] = [request |-> 1, free |-> 0]
             /\ ks_kobj' = "live"
             /\ ks_group']_vars

\* the cellular line could not be set up after the other two had been
C18_Witness ==
    /\ module.phase = "failed"
    /\ InitOrder[module.step] = "cellular"
    /\ init_ret # << >>
    /\ gpio_calls[GPIO_CELLULAR_KILL].request = 1
    /\ gpio_calls[GPIO_MIC_KILL].free = 1
    /\ gpio_requested = {}

\* usb_killswitch_exit has made all its calls
ExitReturned == module.phase = "exit" /\ module.step > Len(ExitOrder)

\* C19: usb_killswitch_exit removes the files first, then drives the three
\* lines LOW, then frees them: from the first write or free of exit on no
\* file exists and no store callback runs, a line is at level 0 and all
\* three have been driven LOW when it is freed, and no line is ever
\* written after it was freed or, by a store callback, after exit drove
\* it LOW.
C19_ExitLowThenFree ==
    [][/\ (module' # module /\ (InExit("gpio_set_state") \/ InExit("gpio_cleanup"))) =>
             /\ ~ks_group
             /\ stores = NoStore
       /\ (module.phase = "exit" /\ ~ks_group) => stores' = NoStore
       /\ \A gpio \in Gpios :
             (gpio \in gpio_requested /\ gpio \notin gpio_requested'
                                       /\ module.phase = "exit") =>
                 /\ gpio_value[gpio] = 0
                 /\ DrivenLow = Gpios
       /\ gpio_late' = {}
       /\ ExitReturned' =>
             /\ gpio_requested' = {}
             /\ \A gpio \in Gpios : gpio_value'[gpio] = 0]_vars

\* exit has returned after stores had switched the camera and the
\* cellular modem off
C19_Witness ==
    /\ ExitReturned
    /\ ks_state.camera_enabled = 1
    /\ ks_state.cellular_enabled = 1
    /\ gpio_requested = {}
    /\ \A gpio \in Gpios : gpio_value[gpio] = 0

\* C20: once every store callback has returned, the tracked state of each
\* toggle is the level its line was last driven to.
C20_TrackedStateIsTheLevel ==
    (module.phase = "loaded" /\ stores = NoStore) =>
        \A t \in Toggles : ks_state[FieldOf(t)] = gpio_value[GpioOf(t)]

\* a call on a trailer with other reserved bytes has followed a first call
SecondCallOtherReserved ==
    /\ op = "image"
    /\ first_outcome # << >>
    /\ first_outcome[1].reserved # signature.reserved

\* C21: the outcome of kyber1024_verify_image does not depend on the
\* reserved bytes of the trailer: a call on a trailer that differs from
\* the one of an earlier call in its reserved bytes only, same image,
\* image_size and key, returns what the earlier call returned (both having
\* obtained their scheme object); and the digest is the one of the payload
\* bytes [0, image_size), the same in both calls.
C21_ReservedBytesDoNotMatter ==
    /\ (InVerifyImage /\ Hashed) =>
          computed_hash = OQS_SHA2_sha256(SubSeq(image, 1, image_size))
    /\ (SecondCallOtherReserved /\ Hashed /\ first_outcome[1].hashed) =>
          computed_hash = first_outcome[1].digest
    /\ (SecondCallOtherReserved /\ Returned("image") /\ ~SchemeFailed
                                 /\ ~first_outcome[1].scheme_failed) =>
          ret["image"] = first_outcome[1].ret

====
